---- MODULE Spec2Model ----
(***************************************************************************)
(* Token lifecycle of schwab-tracking-app (src/token_manager.py):          *)
(* get_valid_token (expiry-aware refresh) and perform_oauth_flow (PKCE     *)
(* authorization handshake with a transient HTTPS listener), together with *)
(* the per-profile token files they read and write.                        *)
(*                                                                         *)
(* A dict (a token payload, a stored record) is a function from field      *)
(* names to values; an optional value is a sequence of length 0 or 1; the  *)
(* content of a file is <<>> right after open(..., "w") truncated it and   *)
(* <<record>> once json.dump's output has been flushed by the close.       *)
(***************************************************************************)
EXTENDS Integers, Sequences, FiniteSets, TLC

(* ------------------------------ bounds --------------------------------- *)
MaxClock == 2
MaxCalls == 2
MaxCallbacks == 2
MaxOps == 1

(* -------------------------- program constants -------------------------- *)
SafetyMargin == 60
DefaultExpiresIn == 1800
DefaultSavedAt == 0

Profiles == {"default", "roth"}
Procs == {"A", "B"}

\* octal permission digits: 0o600 and the mode open() asks for, 0o666
Mode600 == <<6, 0, 0>>
Mode666 == <<6, 6, 6>>
Umasks == {<<0, 2, 2>>, <<0, 7, 7>>}

\* secrets.token_urlsafe draws the session's state and code_verifier
States == {"s1", "s2"}
Verifiers == {"v1", "v2"}
\* query parameters of a request to /callback: <<>> when the parameter is absent
Codes == {<<>>, <<"">>, <<"c1">>}
RetStates == {<<>>} \cup {<<s>> : s \in States}

(* ------------------------- the authorization server -------------------- *)
\* Token payloads of successful responses. access_token is always there;
\* refresh_token and the extras (scope, token_type) are optional, and one
\* payload carries a _saved_at of its own.
Payloads ==
    { [access_token |-> "a1", refresh_token |-> "r1", expires_in |-> 61],
      ("access_token" :> "a2") @@ ("refresh_token" :> "r2")
         @@ ("expires_in" :> 62) @@ ("scope" :> "readonly")
         @@ ("token_type" :> "Bearer") @@ ("_saved_at" :> 99),
      [access_token |-> "a3", expires_in |-> 61] }

ErrorBody == [error |-> "invalid_grant"]

\* What requests.post comes back with. status is <<code>>, or <<>> when no
\* response arrives (a timeout, a refused connection: requests raises); body
\* is <<dict>> when it is JSON and <<>> when resp.json() cannot parse it.
Responses ==
    [status : {<<200>>}, body : {<<p>> : p \in Payloads} \cup {<<>>}]
    \cup [status : {<<401>>, <<500>>}, body : {<<ErrorBody>>}]
    \cup [status : {<<>>}, body : {<<>>}]

VARIABLES
    APP_KEY,      \* os.environ.get("SCHWAB_APP_KEY"): <<>> is None
    APP_SECRET,   \* likewise for SCHWAB_APP_SECRET
    clock,        \* int(time.time())
    files,        \* tokens_<profile>.json, per profile
    call,         \* the get_valid_token call of each process
    ncalls,       \* get_valid_token calls started so far
    flow,         \* perform_oauth_flow: main thread and session
    listener,     \* the Flask server thread: off, starting, accepting
    handler,      \* the request the callback route is handling or handled last
    exchanges,    \* authorization_code POSTs sent in this session
    processed,    \* a valid callback has been handled to its end
    ncb,          \* requests that reached the callback route so far
    consumed      \* refresh tokens the token endpoint has exchanged

envvars == <<APP_KEY, APP_SECRET>>
gvtvars == <<call, ncalls>>
flowvars == <<flow, listener, handler, exchanges, processed, ncb>>
vars == <<APP_KEY, APP_SECRET, clock, files, call, ncalls,
          flow, listener, handler, exchanges, processed, ncb, consumed>>

(* ------------------------------ helpers -------------------------------- *)
\* dict.get(key, default)
Get(d, key, default) == IF key \in DOMAIN d THEN d[key] ELSE default

Bits(d) == {b \in {1, 2, 4} : (d \div b) % 2 = 1}
FromBits(S) == (IF 1 \in S THEN 1 ELSE 0) + (IF 2 \in S THEN 2 ELSE 0)
               + (IF 4 \in S THEN 4 ELSE 0)
\* mode & ~mask, digit by digit
Masked(mode, mask) == [i \in 1..3 |-> FromBits(Bits(mode[i]) \ Bits(mask[i]))]

\* _get_tokens_file: SECURE_DIR / f"tokens_{profile}.json"
GetTokensFile_Shared(profile) == "tokens_" \o "default" \o ".json"
GetTokensFile(profile) == "tokens_" \o profile \o ".json"
Paths == {GetTokensFile(profile) : profile \in Profiles}

NoFile == [exists |-> FALSE, content |-> <<>>, mode |-> <<0, 0, 0>>]

\* open(path) finds the file
Exists_Always(f) == TRUE
Exists(f) == f.exists

\* open(path, "w"): creates the file with 0o666 & ~umask, or truncates it
OpenW(f, um) ==
    IF f.exists THEN [f EXCEPT !.content = <<>>]
    ELSE [exists |-> TRUE, content |-> <<>>, mode |-> Masked(Mode666, um)]

\* json.dump(rec, f) and the close that ends the with block
DumpClose(f, rec) == [f EXCEPT !.content = <<rec>>]

\* os.chmod(path, 0o600)
Chmod600(f) == [f EXCEPT !.mode = Mode600]

\* payload["_saved_at"] = int(time.time())
Stamp_AccessOnly(payload, t) ==
    [k \in (DOMAIN payload \cap {"access_token", "expires_in"})
              \cup {"_saved_at"} |->
        IF k = "_saved_at" THEN t ELSE payload[k]]
Stamp_KnownFields(payload, t) ==
    [k \in (DOMAIN payload
              \cap {"access_token", "refresh_token", "expires_in"})
              \cup {"_saved_at"} |->
        IF k = "_saved_at" THEN t ELSE payload[k]]
Stamp_KeepServer(payload, t) ==
    [k \in DOMAIN payload \cup {"_saved_at"} |->
        IF k \in DOMAIN payload THEN payload[k] ELSE t]
Stamp(payload, t) ==
    [k \in DOMAIN payload \cup {"_saved_at"} |->
        IF k = "_saved_at" THEN t ELSE payload[k]]

\* not APP_KEY or not APP_SECRET: None and "" both count as missing
Missing(v) == v = <<>> \/ v = <<"">>

\* _validate_credentials raises ValueError unless this holds
CredentialsValid_KeyOnly == ~Missing(APP_KEY)
CredentialsValid == ~Missing(APP_KEY) /\ ~Missing(APP_SECRET)

\* age < (expires_in - 60), with the defaults of tokens.get
IsFresh_Never(tokens, now) == FALSE
IsFresh_DoubleMargin(tokens, now) ==
    now - Get(tokens, "_saved_at", DefaultSavedAt)
        < Get(tokens, "expires_in", DefaultExpiresIn) - 2 * SafetyMargin
IsFresh(tokens, now) ==
    now - Get(tokens, "_saved_at", DefaultSavedAt)
        < Get(tokens, "expires_in", DefaultExpiresIn) - SafetyMargin

\* requests.Response.ok: the status code is below 400
RespOk_Always(resp) == TRUE
RespOk_Below500(resp) == resp.status[1] < 500
RespOk(resp) == resp.status[1] < 400

(* ------------------------- get_valid_token ----------------------------- *)
IdleCall ==
    [pc |-> "idle", profile |-> "default", tokens_file |-> "",
     seen |-> <<>>, at |-> 0,
     raw |-> <<>>, new_tokens |-> <<>>, sent |-> <<>>, posts |-> 0,
     reads |-> 0,
     status |-> <<>>, wrote |-> FALSE, midwrite |-> FALSE,
     result |-> "none", value |-> <<>>]

Done(c, result, value) ==
    [c EXCEPT !.pc = "done", !.result = result, !.value = value]

\* somebody has the file at path open for writing
Writing(path) ==
    \/ \E q \in Procs : call[q].tokens_file = path /\ call[q].pc = "opened"
    \/ flow.tokens_file = path /\ handler.pc = "opened"

\* lines 92-124: validate, load, check the age, return or send the refresh
GetValidToken(p, profile) ==
    /\ call[p].pc \in {"idle", "done"}
    /\ ncalls < MaxCalls
    /\ ncalls' = ncalls + 1
    /\ LET c0 == [IdleCall EXCEPT !.profile = profile]
           tokens_file == GetTokensFile(profile)
           f == files[tokens_file]
           c1 == [c0 EXCEPT !.tokens_file = tokens_file, !.reads = 1,
                            !.midwrite = Writing(tokens_file)]
       IN  call' = [call EXCEPT ![p] =
             IF ~CredentialsValid THEN Done(c0, "ValueError", <<>>)
             ELSE IF ~Exists(f) THEN Done(c1, "FileNotFoundError", <<>>)
             ELSE IF f.content = <<>> THEN Done(c1, "JSONDecodeError", <<>>)
             ELSE LET tokens == f.content[1]
                      c2 == [c1 EXCEPT !.seen = <<tokens>>, !.at = clock]
                  IN  IF IsFresh(tokens, clock)
                      THEN IF "access_token" \in DOMAIN tokens
                           THEN Done(c2, "return", <<tokens["access_token"]>>)
                           ELSE Done(c2, "KeyError", <<>>)
                      ELSE IF "refresh_token" \notin DOMAIN tokens
                      THEN Done(c2, "KeyError", <<>>)
                      ELSE [c2 EXCEPT !.pc = "posting", !.posts = 1,
                                      !.sent = <<tokens["refresh_token"]>>]]
    /\ UNCHANGED <<envvars, consumed, clock, files, flowvars>>

\* lines 124-132: the response arrives; a rejected one raises, an accepted
\* one is parsed, stamped and the tokens file opened for writing
ReceiveRefresh(p, resp) ==
    /\ call[p].pc = "posting"
    /\ LET c == [call[p] EXCEPT !.status = resp.status] IN
       IF resp.status = <<>>
       THEN /\ call' = [call EXCEPT ![p] = Done(c, "RequestException", <<>>)]
            /\ UNCHANGED files
       ELSE IF ~RespOk(resp)
       THEN /\ call' = [call EXCEPT ![p] = Done(c, "RefreshFailed", <<>>)]
            /\ UNCHANGED files
       ELSE IF resp.body = <<>>
       THEN /\ call' = [call EXCEPT ![p] = Done(c, "JSONDecodeError", <<>>)]
            /\ UNCHANGED files
       ELSE /\ call' = [call EXCEPT ![p] =
                 [c EXCEPT !.pc = "opened", !.wrote = TRUE, !.raw = resp.body,
                           !.new_tokens = <<Stamp(resp.body[1], clock)>>]]
            /\ \E um \in Umasks :
                 files' = [files EXCEPT ![c.tokens_file] = OpenW(@, um)]
    /\ UNCHANGED <<envvars, clock, ncalls, flowvars>>

\* the token endpoint answers as it likes
RefreshResponse(p, resp) ==
    /\ ReceiveRefresh(p, resp)
    /\ UNCHANGED consumed

\* the token endpoint exchanges a refresh token only once: a 200 consumes
\* the token sent, a consumed token never gets a 200, and a request that
\* gets no response may have been served all the same
RefreshResponseOnce(p, resp) ==
    /\ call[p].pc = "posting"
    /\ call[p].sent[1] \in consumed => resp.status # <<200>>
    /\ \/ /\ resp.status \in {<<200>>, <<>>}
          /\ consumed' = consumed \cup {call[p].sent[1]}
       \/ /\ resp.status # <<200>>
          /\ consumed' = consumed
    /\ ReceiveRefresh(p, resp)

\* line 133 and the end of the with block
RefreshDump(p) ==
    /\ call[p].pc = "opened"
    /\ files' = [files EXCEPT ![call[p].tokens_file] =
                    DumpClose(@, call[p].new_tokens[1])]
    /\ call' = [call EXCEPT ![p].pc = "written"]
    /\ UNCHANGED <<envvars, consumed, clock, ncalls, flowvars>>

\* lines 134-137
RefreshChmod(p) ==
    /\ call[p].pc = "written"
    /\ files' = [files EXCEPT ![call[p].tokens_file] = Chmod600(@)]
    /\ LET nt == call[p].new_tokens[1] IN
       call' = [call EXCEPT ![p] =
          IF "access_token" \in DOMAIN nt
          THEN Done(@, "return", <<nt["access_token"]>>)
          ELSE Done(@, "KeyError", <<>>)]
    /\ UNCHANGED <<envvars, consumed, clock, ncalls, flowvars>>

\* the process is killed in the middle of a call
KillCall(p) ==
    /\ call[p].pc \in {"posting", "opened", "written"}
    /\ call' = [call EXCEPT ![p] =
                  Done([IdleCall EXCEPT !.profile = call[p].profile,
                                        !.tokens_file = call[p].tokens_file],
                       "killed", <<>>)]
    /\ UNCHANGED <<envvars, consumed, clock, files, ncalls, flowvars>>

Tick ==
    /\ clock < MaxClock
    /\ clock' = clock + 1
    /\ UNCHANGED <<envvars, consumed, files, gvtvars, flowvars>>

(* ------------------------- perform_oauth_flow -------------------------- *)
\* hashlib.sha256(code_verifier.encode()).digest(): the 32 bytes of the
\* digest, tabulated for the verifiers of the model
Sha256(v) ==
    CASE v = "v1" ->
             <<59, 252, 38, 149, 148, 239, 100, 146, 40, 233, 167,
               75, 171, 0, 240, 66, 239, 201, 29, 90, 204, 111,
               190, 227, 26, 56, 46, 128, 212, 35, 136, 254>>
      [] v = "v2" ->
             <<251, 4, 220, 182, 151, 14, 76, 61, 24, 115, 222,
               81, 253, 90, 80, 215, 187, 70, 179, 56, 49, 19,
               96, 38, 101, 195, 80, 236, 64, 181, 249, 144>>

\* the URL-safe alphabet of base64: value i is written UrlsafeAlphabet[i + 1]
UrlsafeAlphabet ==
    <<"A", "B", "C", "D", "E", "F", "G", "H", "I", "J", "K", "L", "M",
      "N", "O", "P", "Q", "R", "S", "T", "U", "V", "W", "X", "Y", "Z",
      "a", "b", "c", "d", "e", "f", "g", "h", "i", "j", "k", "l", "m",
      "n", "o", "p", "q", "r", "s", "t", "u", "v", "w", "x", "y", "z",
      "0", "1", "2", "3", "4", "5", "6", "7", "8", "9", "-", "_">>

\* base64.urlsafe_b64encode(b), as a sequence of characters: three bytes give
\* four characters, and a last group of one or two bytes is padded with "="
RECURSIVE UrlsafeB64encode(_)
UrlsafeB64encode(b) ==
    LET ch(i) == UrlsafeAlphabet[i + 1] IN
    IF Len(b) = 0 THEN <<>>
    ELSE IF Len(b) = 1
    THEN <<ch(b[1] \div 4), ch((b[1] % 4) * 16), "=", "=">>
    ELSE IF Len(b) = 2
    THEN <<ch(b[1] \div 4), ch((b[1] % 4) * 16 + b[2] \div 16),
           ch((b[2] % 16) * 4), "=">>
    ELSE <<ch(b[1] \div 4), ch((b[1] % 4) * 16 + b[2] \div 16),
           ch((b[2] % 16) * 4 + b[3] \div 64), ch(b[3] % 64)>>
         \o UrlsafeB64encode(SubSeq(b, 4, Len(b)))

\* str.rstrip("=")
RECURSIVE RstripPad(_)
RstripPad(cs) ==
    IF Len(cs) > 0 /\ cs[Len(cs)] = "="
    THEN RstripPad(SubSeq(cs, 1, Len(cs) - 1))
    ELSE cs

\* the str made of the characters cs
RECURSIVE Str(_)
Str(cs) == IF Len(cs) = 0 THEN "" ELSE cs[1] \o Str(Tail(cs))

\* _b64url: base64.urlsafe_b64encode(b).decode().rstrip("=")
B64url_Padded(b) == Str(UrlsafeB64encode(b))
B64url(b) == Str(RstripPad(UrlsafeB64encode(b)))

NoFlow ==
    [pc |-> "idle", profile |-> "default", tokens_file |-> "",
     code_verifier |-> <<>>, state |-> <<>>, code_challenge |-> <<>>]

IdleHandler ==
    [pc |-> "idle", code |-> <<>>, ret_state |-> <<>>, verifier |-> <<>>,
     rstatus |-> <<>>, raw |-> <<>>, payload |-> <<>>,
     status |-> 0, body |-> "",
     prev |-> ""]    \* the answer to the request before this one

\* request.args.get("code") is None or empty
CodeMissing_EmptyOnly(code) == code = <<"">>
CodeMissing(code) == code = <<>> \/ code = <<"">>

\* ret_state != state
StateMatches_AbsentPasses(ret_state, state) ==
    ret_state = <<>> \/ ret_state = state
StateMatches(ret_state, state) == ret_state = state

Answer(h, status, body) ==
    [h EXCEPT !.pc = "idle", !.status = status, !.body = body]

\* lines 152-172: validate, generate the session, build the authorize URL
FlowStart(profile) ==
    /\ flow.pc = "idle"
    /\ IF ~CredentialsValid
       THEN flow' = [flow EXCEPT !.pc = "failed", !.profile = profile]
       ELSE \E v \in Verifiers, s \in States :
              flow' = [pc |-> "session", profile |-> profile,
                       tokens_file |-> GetTokensFile(profile),
                       code_verifier |-> <<v>>, state |-> <<s>>,
                       code_challenge |-> <<B64url(Sha256(v))>>]
    /\ UNCHANGED <<envvars, consumed, clock, files, gvtvars, listener, handler,
                   exchanges, processed, ncb>>

\* line 229: threading.Thread(target=run_server, daemon=True).start()
FlowStartThread ==
    /\ flow.pc = "session"
    /\ flow' = [flow EXCEPT !.pc = "serving"]
    /\ listener' = "starting"
    /\ UNCHANGED <<envvars, consumed, clock, files, gvtvars, handler, exchanges,
                   processed, ncb>>

\* lines 224-225, in the server thread: app.run binds 127.0.0.1:8443
ServerBind ==
    /\ listener = "starting"
    /\ listener' = "accepting"
    /\ UNCHANGED <<envvars, consumed, clock, files, gvtvars, flow, handler, exchanges,
                   processed, ncb>>

\* lines 230-235: open the browser, then sleep for ever
FlowOpenBrowser ==
    /\ flow.pc = "serving"
    /\ flow' = [flow EXCEPT !.pc = "waiting"]
    /\ UNCHANGED <<envvars, consumed, clock, files, gvtvars, listener, handler,
                   exchanges, processed, ncb>>

\* lines 178-206: a request reaches /callback
Callback(code, ret_state) ==
    /\ listener = "accepting"
    /\ handler.pc = "idle"
    /\ ncb < MaxCallbacks
    /\ ncb' = ncb + 1
    /\ LET h == [IdleHandler EXCEPT !.code = code, !.ret_state = ret_state,
                                    !.prev = handler.body] IN
       IF CodeMissing(code)
       THEN /\ handler' = Answer(h, 400, "Missing code")
            /\ UNCHANGED exchanges
       ELSE IF ~StateMatches(ret_state, flow.state)
       THEN /\ handler' = Answer(h, 400, "State mismatch")
            /\ UNCHANGED exchanges
       ELSE /\ handler' = [h EXCEPT !.pc = "exchanging",
                                    !.verifier = flow.code_verifier]
            /\ exchanges' = exchanges + 1
    /\ UNCHANGED <<envvars, consumed, clock, files, gvtvars, flow, listener, processed>>

\* lines 206-222: the token endpoint answers the authorization_code POST
ExchangeResponse(resp) ==
    /\ handler.pc = "exchanging"
    /\ LET h == [handler EXCEPT !.rstatus = resp.status] IN
       IF resp.status = <<>>
       THEN \* requests raises; Flask answers 500
            /\ handler' = Answer(h, 500, "Internal Server Error")
            /\ processed' = TRUE
            /\ UNCHANGED files
       ELSE IF ~RespOk(resp)
       THEN /\ handler' = Answer(h, 400, "Token exchange failed")
            /\ processed' = TRUE
            /\ UNCHANGED files
       ELSE IF resp.body = <<>>
       THEN \* resp.json() raises inside the try
            /\ handler' = Answer(h, 200, "Tokens received")
            /\ processed' = TRUE
            /\ UNCHANGED files
       ELSE /\ handler' = [h EXCEPT
                             !.pc = "opened", !.raw = resp.body,
                             !.payload = <<Stamp(resp.body[1], clock)>>]
            /\ \E um \in Umasks :
                 files' = [files EXCEPT ![flow.tokens_file] = OpenW(@, um)]
            /\ UNCHANGED processed
    /\ UNCHANGED <<envvars, consumed, clock, call, ncalls, flow, listener, exchanges,
                   ncb>>

\* line 215 and the end of the with block
HandlerDump ==
    /\ handler.pc = "opened"
    /\ files' = [files EXCEPT ![flow.tokens_file] =
                    DumpClose(@, handler.payload[1])]
    /\ handler' = [handler EXCEPT !.pc = "written"]
    /\ UNCHANGED <<envvars, consumed, clock, gvtvars, flow, listener, exchanges,
                   processed, ncb>>

\* lines 216-220
HandlerChmod ==
    /\ handler.pc = "written"
    /\ files' = [files EXCEPT ![flow.tokens_file] = Chmod600(@)]
    /\ handler' = Answer(handler, 200, "Tokens received")
    /\ processed' = TRUE
    /\ UNCHANGED <<envvars, consumed, clock, gvtvars, flow, listener, exchanges, ncb>>

\* the process running the flow is terminated
KillFlow ==
    /\ flow.pc \in {"session", "serving", "waiting"}
    /\ flow' = [flow EXCEPT !.pc = "killed"]
    /\ listener' = "off"
    /\ handler' = [handler EXCEPT !.pc = IF @ = "idle" THEN "idle" ELSE "killed"]
    /\ UNCHANGED <<envvars, consumed, clock, files, gvtvars, exchanges, processed, ncb>>

(* ------------------------------ the system ----------------------------- *)
\* records an earlier run of the program left behind
StoredFile(rec) == [exists |-> TRUE, content |-> <<rec>>, mode |-> Mode600]
InitialFiles == {NoFile} \cup {StoredFile(Stamp(p, 0)) : p \in Payloads}

Init ==
    /\ APP_KEY \in {<<>>, <<"">>, <<"key">>}
    /\ APP_SECRET \in {<<>>, <<"">>, <<"secret">>}
    /\ clock = 0
    /\ files \in [Paths -> InitialFiles]
    /\ call = [p \in Procs |-> IdleCall]
    /\ ncalls = 0
    /\ flow = NoFlow
    /\ listener = "off"
    /\ handler = IdleHandler
    /\ exchanges = 0
    /\ processed = FALSE
    /\ ncb = 0
    /\ consumed = {}

Next ==
    \/ \E p \in Procs, profile \in Profiles : GetValidToken(p, profile)
    \/ \E p \in Procs, resp \in Responses : RefreshResponse(p, resp)
    \/ \E p \in Procs : RefreshDump(p)
    \/ \E p \in Procs : RefreshChmod(p)
    \/ \E p \in Procs : KillCall(p)
    \/ Tick
    \/ \E profile \in Profiles : FlowStart(profile)
    \/ FlowStartThread
    \/ ServerBind
    \/ FlowOpenBrowser
    \/ \E code \in Codes, ret_state \in RetStates : Callback(code, ret_state)
    \/ \E resp \in Responses : ExchangeResponse(resp)
    \/ HandlerDump
    \/ HandlerChmod
    \/ KillFlow

Spec == Init /\ [][Next]_vars

\* get_valid_token and perform_oauth_flow share the token files and the clock
\* and nothing else; each is also specified on its own.
NextRefresh ==
    \/ \E p \in Procs, profile \in Profiles : GetValidToken(p, profile)
    \/ \E p \in Procs, resp \in Responses : RefreshResponse(p, resp)
    \/ \E p \in Procs : RefreshDump(p)
    \/ \E p \in Procs : RefreshChmod(p)
    \/ \E p \in Procs : KillCall(p)
    \/ Tick

SpecRefresh == Init /\ [][NextRefresh]_vars

\* get_valid_token against a token endpoint with one-time refresh tokens
NextOnce ==
    \/ \E p \in Procs, profile \in Profiles : GetValidToken(p, profile)
    \/ \E p \in Procs, resp \in Responses : RefreshResponseOnce(p, resp)
    \/ \E p \in Procs : RefreshDump(p)
    \/ \E p \in Procs : RefreshChmod(p)
    \/ Tick

SpecOnce == Init /\ [][NextOnce]_vars

NextFlow ==
    \/ \E profile \in Profiles : FlowStart(profile)
    \/ FlowStartThread
    \/ ServerBind
    \/ FlowOpenBrowser
    \/ \E code \in Codes, ret_state \in RetStates : Callback(code, ret_state)
    \/ \E resp \in Responses : ExchangeResponse(resp)
    \/ HandlerDump
    \/ HandlerChmod
    \/ KillFlow
    \/ Tick

SpecFlow == Init /\ [][NextFlow]_vars

\* The threads of the flow keep running and every POST comes back or times
\* out (timeout=20); requests to /callback, the kill and the passing of time
\* are up to the environment.
FairFlow ==
    /\ WF_vars(FlowStartThread)
    /\ WF_vars(ServerBind)
    /\ WF_vars(FlowOpenBrowser)
    /\ WF_vars(\E resp \in Responses : ExchangeResponse(resp))
    /\ WF_vars(HandlerDump)
    /\ WF_vars(HandlerChmod)

SpecFlowLive == Init /\ [][NextFlow]_vars /\ FairFlow

\* the entry of both operations, up to their first blocking step
NextEntry ==
    \/ \E profile \in Profiles : GetValidToken("A", profile)
    \/ \E profile \in Profiles : FlowStart(profile)
    \/ FlowStartThread
    \/ ServerBind
    \/ FlowOpenBrowser
    \/ \E code \in Codes, ret_state \in RetStates : Callback(code, ret_state)
    \/ Tick

SpecEntry == Init /\ [][NextEntry]_vars

\* The two writers of the Store side by side: one process calling
\* get_valid_token and the authorization flow, MaxOps calls and callbacks in
\* all.
NextStore ==
    \/ /\ ncalls + ncb < MaxOps
       /\ \E profile \in Profiles : GetValidToken("A", profile)
    \/ \E resp \in Responses : RefreshResponse("A", resp)
    \/ RefreshDump("A")
    \/ RefreshChmod("A")
    \/ \E profile \in Profiles : FlowStart(profile)
    \/ FlowStartThread
    \/ ServerBind
    \/ /\ ncalls + ncb < MaxOps
       /\ \E code \in Codes, ret_state \in RetStates : Callback(code, ret_state)
    \/ \E resp \in Responses : ExchangeResponse(resp)
    \/ HandlerDump
    \/ HandlerChmod
    \/ Tick

SpecStore == Init /\ [][NextStore]_vars

(* ------------------------------- claims -------------------------------- *)
\* the Store's record of a profile
RecordPath(profile) == "tokens_" \o profile \o ".json"

\* the freshness condition as the specification words it, on a stored record
SavedAtOf(rec) == IF "_saved_at" \in DOMAIN rec THEN rec["_saved_at"] ELSE 0
ExpiresInOf(rec) == IF "expires_in" \in DOMAIN rec THEN rec["expires_in"] ELSE 1800
SpecFresh(rec, now) == now - SavedAtOf(rec) < ExpiresInOf(rec) - 60

\* C1: a get_valid_token call that loads a record with
\* now - saved_at < expires_in - 60 is over in its first step: it sends no
\* POST, receives no response, never opens the file for writing, and returns
\* the access_token of the record it loaded.
C1_FreshReturnsStored ==
    \A p \in Procs :
        LET c == call[p] IN
        (c.seen # <<>> /\ SpecFresh(c.seen[1], c.at))
            => /\ c.pc = "done"
               /\ c.result = "return"
               /\ c.value = <<c.seen[1]["access_token"]>>
               /\ c.posts = 0
               /\ c.status = <<>>
               /\ ~c.wrote
               /\ c.new_tokens = <<>>

\* a call returned a stored token that was one second old
C1_Witness ==
    \E p \in Procs :
        /\ call[p].pc = "done"
        /\ call[p].result = "return"
        /\ call[p].seen # <<>>
        /\ call[p].at - SavedAtOf(call[p].seen[1]) = 1
        /\ call[p].posts = 0
        /\ files[RecordPath(call[p].profile)].content = call[p].seen

\* C2 (as claimed): a finished call that loaded a record with
\* now - saved_at >= expires_in - 60 has sent exactly one refresh POST, and
\* when it returned after a successful POST the record it stored has
\* saved_at equal to the time of the call and the response's access_token,
\* which is the value returned.
C2_StaleOnePost ==
    \A p \in Procs :
        LET c == call[p] IN
        (c.pc = "done" /\ c.seen # <<>> /\ ~SpecFresh(c.seen[1], c.at))
            => /\ c.posts = 1
               /\ (c.result = "return" =>
                     /\ c.new_tokens[1]["_saved_at"] = c.at
                     /\ c.new_tokens[1]["access_token"] = c.raw[1]["access_token"]
                     /\ c.value = <<c.raw[1]["access_token"]>>)

FlowDone == listener = "off" /\ flow.pc \notin {"idle", "session"}

\* C4: a request to /callback with a non-empty code whose state parameter is
\* absent or differs from the session's state is answered 400 "State
\* mismatch" in that step; no exchange is sent, no token file changes, and the
\* listener goes on accepting requests with the session unchanged.
C4_StateMismatchRejected ==
    [][(/\ ncb' = ncb + 1
        /\ handler'.code \notin {<<>>, <<"">>}
        /\ handler'.ret_state # flow.state)
          => /\ handler'.status = 400
             /\ handler'.body = "State mismatch"
             /\ handler'.pc = "idle"
             /\ exchanges' = exchanges
             /\ files' = files
             /\ listener' = "accepting"
             /\ flow' = flow]_vars

\* a request with a code and no state parameter has been turned away, and one
\* with a wrong state too
C4_Witness ==
    /\ handler.code = <<"c1">>
    /\ handler.ret_state = <<>>
    /\ handler.status = 400
    /\ handler.body = "State mismatch"
    /\ listener = "accepting"
    /\ ncb = 2

\* C5: a request to /callback with a non-empty code and the session's state
\* sends one authorization_code exchange; when the exchange is answered 2xx
\* with a JSON body, the write that follows leaves in the profile's file
\* exactly the response's fields plus _saved_at, with the response's
\* refresh_token (none if the response has none) and nothing of an earlier
\* record, and the handler then answers 200.
C5_ValidCallbackStoresRecord ==
    [][/\ (/\ ncb' = ncb + 1
           /\ handler'.code \notin {<<>>, <<"">>}
           /\ handler'.ret_state = flow.state)
             => /\ exchanges' = exchanges + 1
                /\ handler'.pc = "exchanging"
                /\ handler'.verifier = flow.code_verifier
       /\ (handler.pc = "opened" /\ handler'.pc = "written")
             => LET raw == handler.raw[1]
                    rec == files'[RecordPath(flow.profile)].content[1]
                IN  /\ handler.rstatus[1] \in 200..299
                    /\ files'[RecordPath(flow.profile)].content # <<>>
                    /\ DOMAIN rec = DOMAIN raw \cup {"_saved_at"}
                    /\ \A k \in DOMAIN raw \ {"_saved_at"} : rec[k] = raw[k]
       /\ (handler.pc = "written" /\ handler'.pc = "idle")
             => /\ handler'.status = 200
                /\ files' = [files EXCEPT ![RecordPath(flow.profile)].mode = <<6, 0, 0>>]
       /\ (handler.pc = "exchanging" /\ handler'.rstatus = <<200>>
              /\ handler'.raw # <<>>)
             => handler'.pc = "opened"]_vars

\* the flow has stored a response whose refresh_token is r2 and answered 200
C5_Witness ==
    /\ handler.pc = "idle"
    /\ handler.status = 200
    /\ handler.raw # <<>>
    /\ "refresh_token" \in DOMAIN handler.raw[1]
    /\ handler.raw[1]["refresh_token"] = "r2"
    /\ files[RecordPath(flow.profile)].content # <<>>
    /\ files[RecordPath(flow.profile)].content[1]["refresh_token"] = "r2"
    /\ files[RecordPath(flow.profile)].mode = <<6, 0, 0>>

\* C6 (as claimed): once the handler has answered a request whose exchange
\* was answered non-2xx, or 2xx with a body that does not parse, the answer
\* to the browser is 400, the request has written no record, and the flow is
\* in its terminal state.
C6_FailedExchangeEndsFlow ==
    (/\ handler.pc = "idle"
     /\ handler.rstatus # <<>>
     /\ (handler.rstatus[1] \notin 200..299 \/ handler.raw = <<>>))
        => /\ handler.status = 400
           /\ handler.payload = <<>>
           /\ FlowDone

\* C7 (as claimed): once a valid callback has been handled to its end, no
\* step sends another exchange.
C7_SessionUsedOnce ==
    [][processed => exchanges' = exchanges]_vars

\* C8 (as claimed): whenever nobody is in the middle of writing a profile's
\* file, killed writers included, the file holds a complete record.
C8_KillLeavesParseableFile ==
    \A profile \in Profiles :
        (files[RecordPath(profile)].exists /\ ~Writing(RecordPath(profile)))
            => files[RecordPath(profile)].content # <<>>

\* C9 (as claimed): a get_valid_token call that loads a profile's file while
\* another process is writing it gets a complete record out of the load.
C9_ReaderSeesCompleteRecord ==
    \A p \in Procs :
        (call[p].reads = 1 /\ call[p].midwrite) => call[p].seen # <<>>

\* C10: with SCHWAB_APP_KEY or SCHWAB_APP_SECRET unset or empty, every
\* get_valid_token call has ended with the ValueError of
\* _validate_credentials without a load, a POST or a write, and
\* perform_oauth_flow has failed before it made a session, started the
\* listener or handled a request.
C10_MissingCredentialsFailFast ==
    (APP_KEY \in {<<>>, <<"">>} \/ APP_SECRET \in {<<>>, <<"">>})
        => /\ \A p \in Procs :
                call[p].pc # "idle"
                    => /\ call[p].pc = "done"
                       /\ call[p].result = "ValueError"
                       /\ call[p].reads = 0
                       /\ call[p].posts = 0
                       /\ ~call[p].wrote
           /\ flow.pc \in {"idle", "failed"}
           /\ flow.code_verifier = <<>>
           /\ listener = "off"
           /\ handler.pc = "idle"
           /\ exchanges = 0
           /\ ncb = 0

\* with the secret unset, a call on a profile whose record is fresh has ended
\* with ValueError and the flow has failed
C10_Witness ==
    /\ APP_KEY = <<"key">>
    /\ APP_SECRET = <<>>
    /\ call["A"].result = "ValueError"
    /\ files[RecordPath(call["A"].profile)].content # <<>>
    /\ SpecFresh(files[RecordPath(call["A"].profile)].content[1], clock)
    /\ flow.pc = "failed"

\* C11: with the client key and secret configured, a get_valid_token call on
\* a profile that has no record ends in its first step with
\* FileNotFoundError: it sends no POST, receives no response, opens nothing
\* for writing, every token file is what it was, and the profile still has
\* no record.
C11_NoRecordNotFound ==
    [][\A p \in Procs :
         (/\ ncalls' = ncalls + 1
          /\ call'[p] # call[p]
          /\ APP_KEY \notin {<<>>, <<"">>}
          /\ APP_SECRET \notin {<<>>, <<"">>}
          /\ ~files[RecordPath(call'[p].profile)].exists)
            => /\ call'[p].pc = "done"
               /\ call'[p].result = "FileNotFoundError"
               /\ call'[p].posts = 0
               /\ call'[p].status = <<>>
               /\ ~call'[p].wrote
               /\ files' = files
               /\ ~files'[RecordPath(call'[p].profile)].exists]_vars

\* a call on a profile without a record has ended with FileNotFoundError
\* while the other profile has a record
C11_Witness ==
    \E p \in Procs, q \in Profiles :
        /\ APP_KEY = <<"key">>
        /\ APP_SECRET = <<"secret">>
        /\ call[p].result = "FileNotFoundError"
        /\ call[p].reads = 1
        /\ call[p].posts = 0
        /\ ~files[RecordPath(call[p].profile)].exists
        /\ q # call[p].profile
        /\ files[RecordPath(q)].exists

\* C12: the _saved_at of a payload is set, in the step that receives the
\* response and opens the file, to the clock of that step, by a refresh and
\* by the flow's callback alike; and every step that puts a record into a
\* token file puts one whose _saved_at is the writer's stamp, a clock value
\* not later than now; the _saved_at of the server's response is never the
\* one stored.
C12_SavedAtIsLocalClock ==
    [][/\ \A p \in Procs :
            (call[p].pc = "posting" /\ call'[p].pc = "opened")
                => call'[p].new_tokens[1]["_saved_at"] = clock
       /\ (handler.pc = "exchanging" /\ handler'.pc = "opened")
                => handler'.payload[1]["_saved_at"] = clock
       /\ \A p \in Procs :
            (call[p].pc = "opened" /\ call'[p].pc = "written")
                => LET rec == files'[RecordPath(call[p].profile)].content IN
                   /\ rec # <<>>
                   /\ rec[1]["_saved_at"] = call[p].new_tokens[1]["_saved_at"]
       /\ (handler.pc = "opened" /\ handler'.pc = "written")
                => LET rec == files'[RecordPath(flow.profile)].content IN
                   /\ rec # <<>>
                   /\ rec[1]["_saved_at"] = handler.payload[1]["_saved_at"]
       /\ \A path \in DOMAIN files :
            (files'[path].content # <<>>)
                => files'[path].content[1]["_saved_at"] \in 0..clock]_vars

\* a refresh whose response carried a _saved_at of its own has stored the
\* record with the local time, one second after the start
C12_Witness ==
    /\ call["A"].result = "return"
    /\ call["A"].wrote
    /\ "_saved_at" \in DOMAIN call["A"].raw[1]
    /\ call["A"].raw[1]["_saved_at"] = 99
    /\ files[RecordPath(call["A"].profile)].content # <<>>
    /\ files[RecordPath(call["A"].profile)].content[1]["_saved_at"] = 1
    /\ clock = 1

\* C13: a step of a get_valid_token call on a profile opens no file but
\* that profile's and leaves every other profile's file as it was, whatever
\* the call's outcome; so does every step of perform_oauth_flow, of its
\* listener and of its callback.
C13_ProfilesIndependent ==
    [][/\ \A p \in Procs :
            call'[p] # call[p]
                => /\ call'[p].tokens_file
                         \in {"", RecordPath(call'[p].profile)}
                   /\ \A path \in DOMAIN files :
                         path # RecordPath(call'[p].profile)
                             => files'[path] = files[path]
       /\ (flow' # flow \/ handler' # handler \/ listener' # listener)
                => /\ flow'.tokens_file \in {"", RecordPath(flow'.profile)}
                   /\ \A path \in DOMAIN files :
                         path # RecordPath(flow'.profile)
                             => files'[path] = files[path]]_vars

\* the flow has stored a record for profile roth while profile default still
\* has none
C13_Witness ==
    /\ flow.profile = "roth"
    /\ handler.pc = "idle"
    /\ handler.status = 200
    /\ handler.payload # <<>>
    /\ files[RecordPath("roth")].content = handler.payload
    /\ ~files[RecordPath("default")].exists

\* C14 (as claimed): in every state, a token file that holds a record gives
\* no permission to group or to others, the states between the open that
\* creates the file and the chmod included.
C14_OwnerOnlyPermissions ==
    \A path \in DOMAIN files :
        (files[path].exists /\ files[path].content # <<>>)
            => /\ files[path].mode[2] = 0
               /\ files[path].mode[3] = 0

\* C15 (as claimed): once a valid callback has been handled to its end,
\* the flow eventually is in its terminal state, with the listener down and
\* the blocking call over.
C15_FlowTerminates == processed ~> FlowDone

\* C16: a request to /callback that has no code parameter is answered 400
\* "Missing code" in that step whatever its state parameter is; it sends no
\* exchange, changes no token file, and leaves the session, the listener and
\* the processed mark as they were; and a request with a code and the
\* session's state that comes after such an answer starts the exchange.
C16_MissingCodeRejected ==
    [][/\ (ncb' = ncb + 1 /\ handler'.code = <<>>)
            => /\ handler'.status = 400
               /\ handler'.body = "Missing code"
               /\ handler'.pc = "idle"
               /\ exchanges' = exchanges
               /\ files' = files
               /\ listener' = "accepting"
               /\ flow' = flow
               /\ processed' = processed
       /\ (/\ ncb' = ncb + 1
           /\ handler.body = "Missing code"
           /\ handler'.code \notin {<<>>, <<"">>}
           /\ handler'.ret_state = flow.state)
            => /\ handler'.pc = "exchanging"
               /\ exchanges' = exchanges + 1]_vars

\* a request without a code but with the session's state was answered
\* "Missing code", and the valid request after it is being exchanged
C16_Witness ==
    /\ handler.pc = "exchanging"
    /\ handler.prev = "Missing code"
    /\ handler.code = <<"c1">>
    /\ handler.ret_state = flow.state
    /\ exchanges = 1
    /\ ncb = 2

\* C17: when a call of one process has refreshed a profile, returned, and
\* the record it stored at time t is the one in the file, a get_valid_token
\* call on that profile started by any process at a time t' with
\* t' - t < expires_in - 60 ends in its first step: it returns the
\* access_token of that record and sends no POST.
C17_NoCache ==
    [][\A p, q \in Procs :
         (/\ ncalls' = ncalls + 1
          /\ call'[q] # call[q]
          /\ call[p].pc = "done"
          /\ call[p].result = "return"
          /\ call[p].wrote
          /\ call'[q].profile = call[p].profile
          /\ files[RecordPath(call[p].profile)].content = call[p].new_tokens
          /\ clock - call[p].new_tokens[1]["_saved_at"]
                < ExpiresInOf(call[p].new_tokens[1]) - 60)
            => /\ call'[q].pc = "done"
               /\ call'[q].result = "return"
               /\ call'[q].value = <<call[p].new_tokens[1]["access_token"]>>
               /\ call'[q].seen = call[p].new_tokens
               /\ call'[q].posts = 0
               /\ call'[q].status = <<>>]_vars

\* one process refreshed the profile and, a second later, the call of the
\* other process returned the token that refresh had stored, without a POST
C17_Witness ==
    \E p, q \in Procs :
        /\ p # q
        /\ call[p].result = "return"
        /\ call[p].wrote
        /\ call[q].result = "return"
        /\ call[q].posts = 0
        /\ call[q].seen = call[p].new_tokens
        /\ call[q].at = call[p].new_tokens[1]["_saved_at"] + 1
        /\ call[q].value = <<call[p].new_tokens[1]["access_token"]>>

\* the S256 code challenges of the model's verifiers (RFC 7636, section 4.2):
\* BASE64URL-ENCODE(SHA256(ASCII(code_verifier))), without padding
S256Challenge(v) ==
    CASE v = "v1" -> "O_wmlZTvZJIo6adLqwDwQu_JHVrMb77jGjgugNQjiP4"
      [] v = "v2" -> "-wTctpcOTD0Yc95R_VpQ17tGszgxE2AmZcNQ7EC1-ZA"

\* C18: in every session the code_challenge that goes into the authorize
\* URL is the unpadded base64url SHA-256 of the session's code_verifier, and
\* the code_verifier of every token exchange the callback sends is the
\* session's.
C18_PkceChallenge ==
    /\ flow.code_verifier # <<>>
          => flow.code_challenge = <<S256Challenge(flow.code_verifier[1])>>
    /\ flow.code_verifier = <<>> => flow.code_challenge = <<>>
    /\ handler.pc \in {"exchanging", "opened", "written"}
          => /\ handler.verifier # <<>>
             /\ handler.verifier = flow.code_verifier
    /\ exchanges > 0 => flow.code_verifier # <<>>

\* a session with verifier v2, whose challenge begins with "-", has sent its
\* exchange
C18_Witness ==
    /\ flow.code_verifier = <<"v2">>
    /\ flow.code_challenge = <<"-wTctpcOTD0Yc95R_VpQ17tGszgxE2AmZcNQ7EC1-ZA">>
    /\ handler.pc = "exchanging"
    /\ handler.verifier = <<"v2">>

\* C19: the write of a refresh whose POST was answered 2xx with a JSON body
\* puts into the profile's file a record with exactly the fields of the
\* response plus _saved_at, every field of the response but _saved_at with
\* the response's value, scope and token_type included; so a refresh_token
\* in the response is the stored one, whatever the record loaded held; the
\* call then sets the mode to 0o600 and returns the response's access_token.
C19_RefreshStoresResponse ==
    [][\A p \in Procs :
         /\ (call[p].pc = "posting" /\ call'[p].pc = "opened")
               => /\ call'[p].status[1] \in 200..299
                  /\ call'[p].raw # <<>>
         /\ (call[p].pc = "opened" /\ call'[p].pc = "written")
               => LET raw == call[p].raw[1]
                      rec == files'[RecordPath(call[p].profile)].content
                  IN  /\ rec # <<>>
                      /\ DOMAIN rec[1] = DOMAIN raw \cup {"_saved_at"}
                      /\ \A k \in DOMAIN raw \ {"_saved_at"} :
                            rec[1][k] = raw[k]
                      /\ "refresh_token" \in DOMAIN raw
                            => rec[1]["refresh_token"] = raw["refresh_token"]
         /\ (call[p].pc = "written" /\ call'[p].pc = "done"
               /\ call'[p].result # "killed")
               => /\ files'[RecordPath(call[p].profile)].mode = <<6, 0, 0>>
                  /\ call'[p].result = "return"
                  /\ call'[p].value = <<call[p].raw[1]["access_token"]>>]_vars

\* a refresh that sent r1 has stored a response with refresh_token r2, scope
\* and token_type, and returned
C19_Witness ==
    \E p \in Procs :
        /\ call[p].result = "return"
        /\ call[p].wrote
        /\ call[p].sent = <<"r1">>
        /\ files[RecordPath(call[p].profile)].content # <<>>
        /\ LET rec == files[RecordPath(call[p].profile)].content[1] IN
           /\ DOMAIN rec = {"access_token", "refresh_token", "expires_in",
                            "scope", "token_type", "_saved_at"}
           /\ rec["refresh_token"] = "r2"
           /\ rec["scope"] = "readonly"
           /\ rec["token_type"] = "Bearer"
           /\ rec["access_token"] = call[p].value[1]

\* C20: against a token endpoint that exchanges a refresh token only once,
\* two calls on one profile that loaded the same stale record have each
\* sent a POST of their own with that record's refresh_token; at most one of
\* them gets to write; and when both are over and one has returned, the
\* other was not served: it raised RefreshFailed if it got an answer (the
\* exception of requests if it got none), it wrote nothing, and the
\* profile's file holds the record of the call that returned.
C20_ConcurrentRefreshOneWins ==
    \A p, q \in Procs :
        (/\ p # q
         /\ call[p].profile = call[q].profile
         /\ call[p].seen # <<>>
         /\ call[p].seen = call[q].seen
         /\ ~SpecFresh(call[p].seen[1], call[p].at)
         /\ ~SpecFresh(call[q].seen[1], call[q].at)
         /\ "refresh_token" \in DOMAIN call[p].seen[1])
            => /\ call[p].posts = 1
               /\ call[q].posts = 1
               /\ call[p].sent = <<call[p].seen[1]["refresh_token"]>>
               /\ call[q].sent = call[p].sent
               /\ ~(call[p].wrote /\ call[q].wrote)
               /\ (call[p].pc = "done" /\ call[q].pc = "done"
                     /\ call[p].result = "return")
                    => /\ call[q].result
                             \in {"RefreshFailed", "RequestException"}
                       /\ call[q].status # <<>>
                             => call[q].result = "RefreshFailed"
                       /\ ~call[q].wrote
                       /\ files[RecordPath(call[p].profile)].content
                             = call[p].new_tokens

\* both calls sent r1; one returned the new token, the other was answered
\* 401 for the token the first had used up, and the file holds the winner's
\* record
C20_Witness ==
    \E p, q \in Procs :
        /\ p # q
        /\ call[p].seen = call[q].seen
        /\ call[p].sent = <<"r1">>
        /\ call[q].sent = <<"r1">>
        /\ "r1" \in consumed
        /\ call[p].result = "return"
        /\ call[p].wrote
        /\ call[q].result = "RefreshFailed"
        /\ call[q].status = <<401>>
        /\ files[RecordPath(call[p].profile)].content = call[p].new_tokens

\* C21 (as claimed): every step that puts a record into a token file, a
\* refresh's or the flow's, puts one that has both an access_token and a
\* refresh_token.
C21_RecordKeepsBothTokens ==
    [][\A path \in DOMAIN files :
         (/\ files'[path].content # files[path].content
          /\ files'[path].content # <<>>)
            => {"access_token", "refresh_token"}
                   \subseteq DOMAIN files'[path].content[1]]_vars

\* C22 (as claimed): whenever the main thread has opened the authorization
\* URL in the browser, so that the browser's callback can arrive, the
\* listener is accepting requests.
C22_ListenerReadyBeforeBrowser ==
    flow.pc = "waiting" => listener = "accepting"
====
